---- MODULE Spec2Model ----
(***************************************************************************)
(* Corpus cleaning pipeline of NetBERT                                     *)
(* (scripts/data_cleaning/-/initial_cleaning/data_processing.ipynb).       *)
(*                                                                         *)
(* A Python str is a sequence of characters; a character is a one-element  *)
(* name: ASCII characters stand for themselves, a non-ASCII character is   *)
(* written as its code point ("u00E9").                                    *)
(*                                                                         *)
(* Three specifications:                                                   *)
(*   Spec        one run of the notebook over a shard, cell by cell, from  *)
(*               the extraction cell to the write of output.txt; a cell    *)
(*               that raises stops the run;                                *)
(*   SpecFilter  sent_cleaning on a list of sentences, statement by        *)
(*               statement;                                                *)
(*   SpecClean   the two transformations of cell 2.1 on one string, in any *)
(*               order.                                                    *)
(* The cell that surveys the keys of all thirteen shards (it only prints)  *)
(* and the cell that lists the output directory are not part of the run.   *)
(***************************************************************************)
EXTENDS Integers, Sequences, FiniteSets, TLC

VARIABLES
    pc,         \* the notebook cell (or statement of cell 2.5) to run next
    data,       \* the value json.load returns for the shard's file
    rows,       \* the list `rows` built by the extraction loop
    df,         \* the column df.Text (df.Length is Len of each entry at creation)
    sentences,  \* the string `sentences` of cell 2.6
    outfile,    \* output.txt: whether the run opened it, and what it wrote
    err,        \* the exception that stopped the run, or NoError
    list_sent0, \* the argument sent_cleaning was called with
    list_sent,  \* the local list_sent of sent_cleaning
    step,       \* the statement of sent_cleaning (or of the cleaner) to run next
    raw,        \* the flattened document string handed to the Corpus Cleaner
    text,       \* the string the Corpus Cleaner currently holds
    applied     \* the cleaner transformations applied to raw so far, in order

vars == <<pc, data, rows, df, sentences, outfile, err,
          list_sent0, list_sent, step, raw, text, applied>>

pipelineVars == <<pc, data, rows, df, sentences, outfile, err>>
filterVars == <<list_sent0, list_sent>>
cleanerVars == <<raw, text, applied>>

-----------------------------------------------------------------------------
(* Bounds of the model.                                                    *)

\* longest sentence (in characters) handed to sent_cleaning
MaxLen == 6
\* longest flattened document (in characters) handed to the Corpus Cleaner
MaxCleanLen == 5
\* most cleaner transformations applied in a row to one string
MaxApplied == 2
\* most entries of the shard's JSON array
MaxDocs == 6

-----------------------------------------------------------------------------
(* Characters.                                                             *)

\* what str.split() and the regex \s treat as whitespace (str patterns are
\* Unicode patterns: the no-break space U+00A0 is whitespace too)
Whitespace == {" ", "\t", "\n", "\r", "u00A0"}

\* the characters str.encode('ascii', 'ignore') drops
NonAscii == {"u00E9", "u00A0", "u20AC", "u00A8", "u00B0", "u00A7", "u00AE",
             "u2020", "u00BA", "u03C0", "u2021", "u00AC", "u2248", "u00A9",
             "u25CA", "u221E", "u00B5", "u2026", "u00F7", "u2260"}

\* spec_char of sent_cleaning
spec_char == {",", "?", ";", ".", ":", "/", "=", "+", "%", "`", "u00A8", "*",
              "$", "u20AC", "-", "_", "(", ")", "u00B0", "!", "u00A7", "'",
              "\"", "&", "@", "#", "~", "u00AE", "u2020", "u00BA", "u03C0",
              "u2021", "u00AC", "u2248", "u00A9", "u25CA", "u221E", "u00B5",
              "u2026", "u00F7", "u2260", "<", ">", "^"}

\* the characters c with c.isdigit()
DigitChars == {"0", "1", "2", "3", "4", "5", "6", "7", "8", "9"}

IsSpace(c) == c \in Whitespace

-----------------------------------------------------------------------------
(* str operations.                                                         *)

\* the positions p in lo..hi with s[p] not whitespace and its neighbour at
\* p + d whitespace or outside s, ascending (d = -1: token starts; d = 1: ends)
RECURSIVE Edges(_, _, _, _)
Edges(s, d, lo, hi) ==
    IF lo > hi THEN <<>>
    ELSE IF lo = hi
         THEN IF /\ ~IsSpace(s[lo])
                 /\ (lo + d < 1 \/ lo + d > Len(s) \/ IsSpace(s[lo + d]))
              THEN <<lo>> ELSE <<>>
         ELSE LET mid == (lo + hi) \div 2
              IN  Edges(s, d, lo, mid) \o Edges(s, d, mid + 1, hi)

\* s.split(): the maximal runs of non-whitespace characters of s, in order
Split(s) ==
    LET st == Edges(s, -1, 1, Len(s))
        en == Edges(s, 1, 1, Len(s))
    IN  [k \in 1..Len(st) |-> SubSeq(s, st[k], en[k])]

\* sep.join(l[lo..hi])
RECURSIVE JoinRange(_, _, _, _)
JoinRange(sep, l, lo, hi) ==
    IF lo > hi THEN <<>>
    ELSE IF lo = hi THEN l[lo]
         ELSE LET mid == (lo + hi) \div 2
              IN  JoinRange(sep, l, lo, mid) \o sep
                    \o JoinRange(sep, l, mid + 1, hi)

\* sep.join(l)
Join(sep, l) == JoinRange(sep, l, 1, Len(l))

\* s.split(maxsplit=1): [], [token] or [first token, rest]; rest starts at the
\* second token and runs to the end of s, trailing whitespace included
SplitMax1(s) ==
    LET st == Edges(s, -1, 1, Len(s))
        en == Edges(s, 1, 1, Len(s))
    IN  IF Len(st) = 0 THEN <<>>
        ELSE IF Len(st) = 1 THEN <<SubSeq(s, st[1], en[1])>>
        ELSE <<SubSeq(s, st[1], en[1]), SubSeq(s, st[2], Len(s))>>

\* x.isdigit()
isdigit(x) == Len(x) > 0 /\ \A i \in 1..Len(x) : x[i] \in DigitChars

\* all(c in spec_char for c in x)
AllSpecChar(x) == \A i \in 1..Len(x) : x[i] \in spec_char

-----------------------------------------------------------------------------
(* 2.1 Corpus cleaning.                                                    *)

\* ' '.join(s.split()): whitespace runs collapsed, and the ends stripped
CollapseAndStrip(s) == Join(<<" ">>, Split(s))

\* the positions 1..n, ascending
Positions(n) == [k \in 1..n |-> k]

\* s.replace('  ', ' '): each pair of adjacent spaces, left to right, becomes
\* one space (the spaces at even offsets of a run stay); other whitespace is kept
CollapseDoubleSpace(s) ==
    LET offset(i) ==
            LET before == {j \in 1..(i - 1) : s[j] # " "}
                last == IF before = {} THEN 0
                        ELSE CHOOSE j \in before : \A k \in before : k <= j
            IN  i - 1 - last
        kept == SelectSeq(Positions(Len(s)),
                          LAMBDA i : s[i] # " " \/ offset(i) % 2 = 0)
    IN  [k \in 1..Len(kept) |-> s[kept[k]]]

\* re.sub('\s+', ' ', s), what Series.replace('\s+', ' ', regex=True) does to
\* each entry: every maximal run of whitespace becomes one space
Collapse(s) ==
    LET kept == SelectSeq(Positions(Len(s)),
                          LAMBDA i : ~IsSpace(s[i]) \/ i = 1 \/ ~IsSpace(s[i - 1]))
    IN  [k \in 1..Len(kept) |-> IF IsSpace(s[kept[k]]) THEN " " ELSE s[kept[k]]]

\* s.encode('ascii', 'ignore').decode('utf-8'): the ASCII characters of s
AsciiFilter(s) == SelectSeq(s, LAMBDA c : c \notin NonAscii)

\* the two statements of cell 2.1 on one entry of df.Text
CleanText(s) == AsciiFilter(Collapse(s))

-----------------------------------------------------------------------------
(* 2.3 Sentence cleaning: sent_cleaning(list_sent), statement by statement. *)

\* len(x)<=2: the longest token the symbol-run removal never looks into
MaxSpecialLen == 2
\* len(sent.split())>2
MinWords == 2
\* len(sent.split())<200
MaxWords == 200

\* the token test with any(...) in place of all(...)
KeepTokenAny(x) ==
    Len(x) <= MaxSpecialLen \/ ~(\E i \in 1..Len(x) : x[i] \in spec_char)

\* the token test with len(x)<=3 in place of len(x)<=2
KeepTokenUpTo3(x) == Len(x) <= MaxSpecialLen + 1 \/ ~AllSpecChar(x)

\* the token test of the first comprehension
KeepToken(x) == Len(x) <= MaxSpecialLen \/ ~AllSpecChar(x)

\* ' '.join([x for x in sent.split() if len(x)<=2 or not all(...)])
RemoveSpecialSeq(sent) == Join(<<" ">>, SelectSeq(Split(sent), KeepToken))

\* the numeral strip testing sent[0].isdigit() in place of the first token
StripLeadingDigitStart(sent) ==
    LET p == SplitMax1(sent)
    IN  IF Len(p) > 1 /\ p[1][1] \in DigitChars THEN p[2] ELSE sent

\* sent.split(maxsplit=1)[1] if (len(...)>1 and ...[0].isdigit()) else sent
StripLeadingNumber(sent) ==
    LET p == SplitMax1(sent)
    IN  IF Len(p) > 1 /\ isdigit(p[1]) THEN p[2] ELSE sent

\* the symbol strip testing sent[0] in spec_char in place of the first token
StripLeadingSymbolStart(sent) ==
    LET p == SplitMax1(sent)
    IN  IF Len(p) > 1 /\ p[1][1] \in spec_char THEN p[2] ELSE sent

\* sent.split(maxsplit=1)[1] if (len(...)>1 and len(...[0])==1
\*                               and ...[0] in spec_char) else sent
StripLeadingSpecChar(sent) ==
    LET p == SplitMax1(sent)
    IN  IF Len(p) > 1 /\ Len(p[1]) = 1 /\ p[1][1] \in spec_char
        THEN p[2] ELSE sent

\* the window with >= and <= in place of > and <
InClosedLengthWindow(sent) ==
    Len(Split(sent)) >= MinWords /\ Len(Split(sent)) <= MaxWords

\* len(sent.split())>2 and len(sent.split())<200
InLengthWindow(sent) ==
    Len(Split(sent)) > MinWords /\ Len(Split(sent)) < MaxWords

\* the four statements of sent_cleaning
Statement1(l) == [i \in 1..Len(l) |-> RemoveSpecialSeq(l[i])]
Statement2(l) == [i \in 1..Len(l) |-> StripLeadingNumber(l[i])]
Statement3(l) == [i \in 1..Len(l) |-> StripLeadingSpecChar(l[i])]
Statement4(l) == SelectSeq(l, InLengthWindow)

sent_cleaning(l) == Statement4(Statement3(Statement2(Statement1(l))))

\* the conversion joining the sentences with a space in place of a newline
sent_convert_spaced(l) == Join(<<" ">>, l)

\* return "\n".join(list_sent)
sent_convert(l) == Join(<<"\n">>, l)

-----------------------------------------------------------------------------
(* Inputs of sent_cleaning.                                                *)

\* the strings over alphabet A of length n, and of length at most n
RECURSIVE StrsOfLen(_, _)
StrsOfLen(A, n) ==
    IF n = 0 THEN {<<>>}
    ELSE {Append(s, c) : s \in StrsOfLen(A, n - 1), c \in A}

Strs(A, n) == UNION {StrsOfLen(A, k) : k \in 0..n}

SentAlphabet == {"a", "1", ".", " "}

\* k copies of the word "a", each preceded by one space
RECURSIVE Padding(_)
Padding(k) ==
    IF k = 0 THEN <<>>
    ELSE IF k = 1 THEN <<" ", "a">>
    ELSE Padding(k \div 2) \o Padding(k - k \div 2)

\* sentences around the upper end of the length window: a start of up to n
\* characters, then one short of MaxWords words, give or take
LongSents(n) ==
    {s \o Padding(k) : s \in Strs(SentAlphabet, n),
                       k \in (MaxWords - 3)..MaxWords}

\* the single-spaced sentences of up to n of the tokens in A
WordSents(A, n) == {Join(<<" ">>, t) : t \in Strs(A, n)}

\* characters of sentences that hold newlines and runs of spaces
LineAlphabet == {"a", " ", "\n"}

SentTokens == {<<"a">>, <<"1">>, <<".">>, <<".", ".", ".">>, <<"1", "a">>}
PairTokens == {<<"a">>, <<"1">>, <<".">>}

\* the lists sent_cleaning is run on: one sentence of up to n characters, one
\* long sentence, one sentence of up to five tokens, or two of up to three
InputLists(n) ==
    {<<>>}
      \cup {<<s>> : s \in Strs(SentAlphabet, n)}
      \cup {<<s>> : s \in Strs(LineAlphabet, n)}
      \cup {<<s>> : s \in LongSents(n - 4)}
      \cup {<<s>> : s \in WordSents(SentTokens, 5)}
      \cup {<<s, t>> : s \in WordSents(PairTokens, 3),
                       t \in WordSents(PairTokens, 3)}

-----------------------------------------------------------------------------
(* sent_cleaning run on its own, one statement per step.                   *)

Idle == "idle"
NotOpened == [opened |-> FALSE, content |-> <<>>]
NoError == [cell |-> "none", exc |-> "none"]

PipelineIdle ==
    /\ pc = Idle /\ data = <<>> /\ rows = <<>> /\ df = <<>>
    /\ sentences = <<>> /\ outfile = NotOpened /\ err = NoError

CleanerIdle == raw = <<>> /\ text = <<>> /\ applied = <<>>

FilterIdle == list_sent0 = <<>> /\ list_sent = <<>>

InitFilter ==
    /\ PipelineIdle /\ CleanerIdle
    /\ list_sent0 \in InputLists(MaxLen)
    /\ list_sent = list_sent0
    /\ step = 1

RemoveSpecialSeqs ==
    /\ pc = Idle /\ step = 1
    /\ list_sent' = Statement1(list_sent)
    /\ step' = 2
    /\ UNCHANGED <<pipelineVars, cleanerVars, list_sent0>>

StripNumbers ==
    /\ pc = Idle /\ step = 2
    /\ list_sent' = Statement2(list_sent)
    /\ step' = 3
    /\ UNCHANGED <<pipelineVars, cleanerVars, list_sent0>>

StripSpecChars ==
    /\ pc = Idle /\ step = 3
    /\ list_sent' = Statement3(list_sent)
    /\ step' = 4
    /\ UNCHANGED <<pipelineVars, cleanerVars, list_sent0>>

KeepByLength ==
    /\ pc = Idle /\ step = 4
    /\ list_sent' = Statement4(list_sent)
    /\ step' = 5
    /\ UNCHANGED <<pipelineVars, cleanerVars, list_sent0>>

NextFilter == RemoveSpecialSeqs \/ StripNumbers \/ StripSpecChars \/ KeepByLength

SpecFilter == InitFilter /\ [][NextFilter]_vars

-----------------------------------------------------------------------------
(* The Corpus Cleaner's two transformations run on one string, in any      *)
(* order.                                                                  *)

CleanAlphabet == {"a", " ", "\n", "u00E9", "u00A0"}

InitClean ==
    /\ PipelineIdle /\ FilterIdle
    /\ raw \in Strs(CleanAlphabet, MaxCleanLen)
    /\ text = raw
    /\ applied = <<>>
    /\ step = 0

CollapseWhitespace ==
    /\ pc = Idle /\ step = 0
    /\ Len(applied) < MaxApplied
    /\ text' = Collapse(text)
    /\ applied' = Append(applied, "collapse")
    /\ UNCHANGED <<pipelineVars, filterVars, step, raw>>

EncodeAscii ==
    /\ pc = Idle /\ step = 0
    /\ Len(applied) < MaxApplied
    /\ text' = AsciiFilter(text)
    /\ applied' = Append(applied, "ascii")
    /\ UNCHANGED <<pipelineVars, filterVars, step, raw>>

NextClean == CollapseWhitespace \/ EncodeAscii

SpecClean == InitClean /\ [][NextClean]_vars


-----------------------------------------------------------------------------
(* The shard: what json.load may return for the input file.                *)

\* an entry of the JSON array: a dict with or without a 'text' list of
\* strings, or a value that is no dict
Dict(frags) == [kind |-> "dict", has_text |-> TRUE, text |-> frags]
DocNoText == [kind |-> "dict", has_text |-> FALSE, text |-> <<>>]
NonDict(k) == [kind |-> k, has_text |-> FALSE, text |-> <<>>]

\* "a \n a" + "é a.": one sentence of three words once cleaned
DocA == Dict(<< <<"a", " ", "\n", "a">>, <<"u00E9", " ", "a", ".">> >>)
\* "1 b b b." + "a.": a numbered sentence, and a second one of one word
DocB == Dict(<< <<"1", " ", "b", " ", "b", " ", "b", ".">>, <<"a", ".">> >>)
\* "b a a. a b b.": two sentences of three words, or one of six
DocC == Dict(<< <<"b", " ", "a", " ", "a", ".", " ", "a", " ", "b", " ", "b", ".">> >>)
\* "a.": no sentence of it passes the length window
DocE == Dict(<< <<"a", ".">> >>)

Value(kind, items) == [kind |-> kind, items |-> items]

\* arrays of up to n dicts (the longest ones without DocB and DocC), short
\* arrays with an entry that is no dict, and the files that hold no array:
\* unparseable,
\* null, a number, a string, an object (items: its values, in key order)
Shards(n) ==
    {Value("array", a) : a \in Strs({DocNoText, DocA, DocE}, n)}
      \cup {Value("array", a) : a \in Strs({DocNoText, DocA, DocB, DocC, DocE}, n - 2)}
      \cup {Value("array", a) : a \in Strs({DocA, DocNoText, NonDict("number")}, 2)}
      \cup {Value("invalid", <<>>), Value("null", <<>>), Value("number", <<>>),
            Value("string", <<>>), Value("string", <<NonDict("str")>>),
            Value("object", <<>>), Value("object", <<DocA>>),
            Value("object", <<DocA, DocB>>)}

-----------------------------------------------------------------------------
(* 1. Data extraction.                                                     *)

\* `for doc in data.values()`
IterValues(d) == d.items

\* what `for i, doc in enumerate(data)` yields: the entries of an array, the
\* keys of an object, the characters of a string (keys and characters are str)
IterItems(d) ==
    IF d.kind = "array" THEN d.items
    ELSE [i \in 1..Len(d.items) |-> NonDict("str")]

\* the loop body with doc.get('text', []) in place of the None test
ExtractDocKeepAll(acc, doc) ==
    Append(acc, IF doc.has_text THEN Join(<<" ">>, doc.text) ELSE <<>>)

\* the loop body: rows gains ' '.join(doc.get('text')) if doc has a text
ExtractDoc(acc, doc) ==
    IF doc.has_text THEN Append(acc, Join(<<" ">>, doc.text)) ELSE acc

\* the loop from entry i on: the rows built, and whether doc.get raised
\* AttributeError on an entry that is no dict
RECURSIVE ExtractLoop(_, _, _)
ExtractLoop(items, i, acc) ==
    IF i > Len(items) THEN [rows |-> acc, ok |-> TRUE]
    ELSE IF items[i].kind # "dict" THEN [rows |-> acc, ok |-> FALSE]
    ELSE ExtractLoop(items, i + 1, ExtractDoc(acc, items[i]))

\* an exception that is recorded while the run goes on with the next cell
RaiseAndRunOn(cell, exc) ==
    /\ pc' = (IF cell = "extract" THEN "stats"
              ELSE IF cell = "stats" THEN "head" ELSE "write")
    /\ err' = [cell |-> cell, exc |-> exc]

\* an uncaught exception ends the cell and the run: no later cell is run
Raise(cell, exc) ==
    /\ pc' = "error"
    /\ err' = [cell |-> cell, exc |-> exc]

\* the extraction cell: json.load, len(data), the loop, pd.DataFrame(rows)
Extract ==
    /\ pc = "extract"
    /\ IF data.kind = "invalid"
       THEN Raise("extract", "JSONDecodeError") /\ UNCHANGED <<rows, df>>
       ELSE IF data.kind \in {"null", "number"}
       THEN Raise("extract", "TypeError") /\ UNCHANGED <<rows, df>>
       ELSE LET r == ExtractLoop(IterItems(data), 1, <<>>)
            IN  /\ rows' = r.rows
                /\ IF r.ok
                   THEN pc' = "stats" /\ df' = r.rows /\ UNCHANGED err
                   ELSE Raise("extract", "AttributeError") /\ UNCHANGED df
    /\ UNCHANGED <<data, sentences, outfile, filterVars, step, cleanerVars>>

\* df.Length.max(), len(df.index): a DataFrame built from no rows has no
\* Length column
Stats ==
    /\ pc = "stats"
    /\ IF df = <<>>
       THEN Raise("stats", "AttributeError")
       ELSE pc' = "head" /\ UNCHANGED err
    /\ UNCHANGED <<data, rows, df, sentences, outfile, filterVars, step,
                   cleanerVars>>

-----------------------------------------------------------------------------
(* 2. Data processing.                                                     *)

\* the rows DataFrame.head() keeps (its default n)
HeadRows == 5

\* df = df.head()
KeepHead ==
    /\ pc = "head"
    /\ df' = SubSeq(df, 1, IF Len(df) < HeadRows THEN Len(df) ELSE HeadRows)
    /\ pc' = "clean"
    /\ UNCHANGED <<data, rows, sentences, outfile, err, filterVars, step,
                   cleanerVars>>

\* 2.1: both statements, on every entry of df.Text
Clean ==
    /\ pc = "clean"
    /\ df' = [i \in 1..Len(df) |-> CleanText(df[i])]
    /\ pc' = "segment"
    /\ UNCHANGED <<data, rows, sentences, outfile, err, filterVars, step,
                   cleanerVars>>

\* the elements of the finite set of integers S, ascending
Sorted(S) ==
    [k \in 1..Cardinality(S) |->
        CHOOSE x \in S : Cardinality({y \in S : y < x}) = k - 1]

\* the characters that may end a sentence
Terminators == {".", "?", "!"}

\* sent_tokenize(s) when it breaks s after the tokens numbered in cuts: each
\* sentence runs from its first token to its last one, the first sentence
\* from the start of s
SegmentAt(s, cuts) ==
    LET st == Edges(s, -1, 1, Len(s))
        en == Edges(s, 1, 1, Len(s))
        n == Len(st)
        first == Sorted({1} \cup {k + 1 : k \in cuts})
        last == Sorted(cuts \cup {n})
    IN  IF n = 0 THEN (IF s = <<>> THEN <<>> ELSE << <<>> >>)
        ELSE [j \in 1..Len(first) |->
                 SubSeq(s, IF j = 1 THEN 1 ELSE st[first[j]], en[last[j]])]

\* nltk_segmentation(s), an external sentence-boundary detector: a sentence
\* may end after any token but the last that ends with a terminator; the
\* detector decides which of these are boundaries
Segmentations(s) ==
    LET toks == Split(s)
        candidates == {k \in 1..(Len(toks) - 1) :
                          toks[k][Len(toks[k])] \in Terminators}
    IN  {SegmentAt(s, cuts) : cuts \in SUBSET candidates}

\* the ways the detector may segment the strings of T: one segmentation for
\* each string, since the detector is deterministic
RECURSIVE Detectors(_)
Detectors(T) ==
    IF T = {} THEN {<<>>}
    ELSE LET t == CHOOSE x \in T : TRUE
         IN  {(t :> g) @@ f : g \in Segmentations(t), f \in Detectors(T \ {t})}

\* 2.5, first statement
Segment ==
    /\ pc = "segment"
    /\ \E f \in Detectors({df[i] : i \in 1..Len(df)}) :
          df' = [i \in 1..Len(df) |-> f[df[i]]]
    /\ pc' = "sent_clean"
    /\ UNCHANGED <<data, rows, sentences, outfile, err, filterVars, step,
                   cleanerVars>>

\* 2.5, first statement, when sent_tokenize raises (the call is not guarded,
\* LookupError if the punkt model cannot be loaded): df['Text'] is not assigned
SegmentRaises ==
    /\ pc = "segment"
    /\ Raise("segment", "LookupError")
    /\ UNCHANGED <<data, rows, df, sentences, outfile, filterVars, step,
                   cleanerVars>>

\* 2.5, second statement
CleanSentences ==
    /\ pc = "sent_clean"
    /\ df' = [i \in 1..Len(df) |-> sent_cleaning(df[i])]
    /\ pc' = "convert"
    /\ UNCHANGED <<data, rows, sentences, outfile, err, filterVars, step,
                   cleanerVars>>

\* 2.5, third statement
Convert ==
    /\ pc = "convert"
    /\ df' = [i \in 1..Len(df) |-> sent_convert(df[i])]
    /\ pc' = "write"
    /\ UNCHANGED <<data, rows, sentences, outfile, err, filterVars, step,
                   cleanerVars>>

\* "\n\n".join(df["Text"])
ConcatDocuments(col) == Join(<<"\n", "\n">>, col)

\* 2.6: join the documents, open output.txt for writing, write the string
Write ==
    /\ pc = "write"
    /\ sentences' = ConcatDocuments(df)
    /\ outfile' = [opened |-> TRUE, content |-> sentences']
    /\ pc' = "done"
    /\ UNCHANGED <<data, rows, df, err, filterVars, step, cleanerVars>>

Init ==
    /\ FilterIdle /\ CleanerIdle /\ step = 0
    /\ data \in Shards(MaxDocs)
    /\ pc = "extract"
    /\ rows = <<>> /\ df = <<>> /\ sentences = <<>>
    /\ outfile = NotOpened
    /\ err = NoError

Next ==
    \/ Extract \/ Stats \/ KeepHead \/ Clean
    \/ Segment \/ SegmentRaises \/ CleanSentences \/ Convert \/ Write

Spec == Init /\ [][Next]_vars

\* sent_cleaning wherever it is run: on a list of its own, or on the
\* sentences of the documents of a run
InitSentences == Init \/ InitFilter

NextSentences == Next \/ NextFilter

SpecSentences == InitSentences /\ [][NextSentences]_vars


-----------------------------------------------------------------------------
(* Properties of a run over one shard (Spec).                              *)

\* out.split("\n\n"): the pieces of out between successive blank-line
\* separators, scanning from position i with piece cur open
RECURSIVE SplitBlank(_, _, _)
SplitBlank(out, i, cur) ==
    IF i > Len(out) THEN <<cur>>
    ELSE IF i < Len(out) /\ out[i] = "\n" /\ out[i + 1] = "\n"
         THEN <<cur>> \o SplitBlank(out, i + 2, <<>>)
         ELSE SplitBlank(out, i + 1, Append(cur, out[i]))

\* an empty file holds no segment
BlankLineSegments(out) ==
    IF out = <<>> THEN <<>> ELSE SplitBlank(out, 1, <<>>)

\* the number of "\n\n" separators out.split("\n\n") finds in out
BlankLineSeparators(out) == Len(SplitBlank(out, 1, <<>>)) - 1

NonEmpty(x) == x # <<>>

\* the documents of the run that kept at least one sentence: after the
\* conversion their entry of df.Text is not the empty string
Survivors == {i \in 1..Len(df) : df[i] # <<>>}

\* C1: in the written output, the number of blank-line-separated segments is
\* the number of documents that kept at least one sentence, and no segment is
\* empty: a document with no sentence left adds neither a segment nor a
\* separator.
C1_SegmentsAreSurvivors ==
    pc = "done" =>
        LET segs == BlankLineSegments(outfile.content)
        IN  /\ Len(segs) = Cardinality(Survivors)
            /\ \A k \in 1..Len(segs) : segs[k] # <<>>

\* C2: the written output neither begins nor ends with a newline and never
\* holds three newlines in a row (one blank line between documents, none at
\* either end).
C2_OneBlankLineBetweenDocuments ==
    pc = "done" =>
        LET out == outfile.content
        IN  /\ Len(out) > 0 => out[1] # "\n" /\ out[Len(out)] # "\n"
            /\ \A i \in 1..(Len(out) - 2) :
                   ~(out[i] = "\n" /\ out[i + 1] = "\n" /\ out[i + 2] = "\n")

\* what a document with a text may contribute to the output: its sentences,
\* cleaned and converted, for some segmentation of its cleaned text
Contributions(doc) ==
    {sent_convert(sent_cleaning(g)) :
        g \in Segmentations(CleanText(Join(<<" ">>, doc.text)))}

\* C3: every document of the input array that has a text and keeps at least
\* one sentence appears in the output, and the output's segments follow the
\* order of their documents in the array.
C3_OrderKeptNoneLost ==
    (pc = "done" /\ data.kind = "array") =>
        LET kept == SelectSeq(data.items,
                        LAMBDA d : d.has_text /\ <<>> \notin Contributions(d))
            segs == SelectSeq(BlankLineSegments(outfile.content), NonEmpty)
        IN  /\ Len(segs) = Len(kept)
            /\ \A k \in 1..Len(segs) : segs[k] \in Contributions(kept[k])

\* C5: when every entry of the array is a dict, the extraction cell raises
\* nothing, the rows it builds are those of the array with the entries
\* lacking a text left out, and the output has one entry per row kept, so
\* none for an entry without text (Len(df) - 1 separators).
C5_MissingTextSkipped ==
    (/\ pc # "extract"
     /\ data.kind = "array"
     /\ \A i \in 1..Len(data.items) : data.items[i].kind = "dict")
    => LET with == SelectSeq(data.items, LAMBDA d : d.has_text)
       IN  /\ err.cell # "extract"
           /\ rows = [k \in 1..Len(with) |-> Join(<<" ">>, with[k].text)]
           /\ pc = "done" =>
                /\ BlankLineSeparators(outfile.content) = Len(df) - 1
                /\ Len(df) <= Len(with)

\* C5 witness: a run wrote its output for an array in which an entry without
\* text comes before two entries with a text.
C5_Witness ==
    /\ pc = "done"
    /\ Len(df) = 2
    /\ Len(data.items) = 3
    /\ ~data.items[1].has_text
    /\ df[1] # <<>> /\ df[2] # <<>> /\ df[1] # df[2]

\* C6: when the file does not hold a JSON array, the run never gets past the
\* cell after the extraction, where it is bound to fail, it ends in an error,
\* and the output file is never opened.
C6_MalformedInputFatal ==
    data.kind # "array" =>
        /\ outfile = NotOpened
        /\ pc \in {"extract", "stats", "error"}
        /\ pc = "stats" => df = <<>>
        /\ pc = "error" => err # NoError

\* C6 witness: an empty JSON object passed the extraction cell and the run
\* failed in the next cell, the output file untouched.
C6_Witness ==
    /\ data.kind = "object"
    /\ pc = "error"
    /\ err.cell = "stats"
    /\ outfile = NotOpened

-----------------------------------------------------------------------------
(* Properties of the Corpus Cleaner (SpecClean).                           *)

HasNonAsciiSpace(s) == \E i \in 1..Len(s) : s[i] \in NonAscii /\ IsSpace(s[i])

\* a run of non-ASCII characters with a whitespace character on either side
HasFlankedNonAsciiRun(s) ==
    \E i \in 2..Len(s), j \in 2..Len(s) :
        /\ i <= j /\ j < Len(s)
        /\ \A k \in i..j : s[k] \in NonAscii
        /\ IsSpace(s[i - 1]) /\ IsSpace(s[j + 1])

OrderInsensitive(s) == ~HasNonAsciiSpace(s) /\ ~HasFlankedNonAsciiRun(s)

\* C7, as claimed: collapsing whitespace and then dropping non-ASCII characters
\* (the reference order) gives the same string as dropping non-ASCII
\* characters first and collapsing afterwards, for every document string.
C7_OrderImmaterial ==
    applied = <<"collapse", "ascii">> => text = Collapse(AsciiFilter(raw))

\* C7, amended: the two orders give the same string for every document string
\* that has no non-ASCII whitespace character and no run of non-ASCII
\* characters with whitespace on both sides.
C7_OrderImmaterialOnPlainSpacing ==
    OrderInsensitive(raw) =>
        /\ applied = <<"collapse", "ascii">> => text = Collapse(AsciiFilter(raw))
        /\ applied = <<"ascii", "collapse">> => text = AsciiFilter(Collapse(raw))

\* C7 witness: the reference order has run on a string that both
\* transformations change and that the amended claim covers.
C7_Witness ==
    /\ applied = <<"collapse", "ascii">>
    /\ OrderInsensitive(raw)
    /\ \E i \in 1..Len(raw) : raw[i] \in NonAscii
    /\ \E i \in 2..Len(raw) : IsSpace(raw[i]) /\ IsSpace(raw[i - 1])
    /\ Len(text) = Len(raw) - 2

\* C8: applying whitespace collapsing to a collapsed string, or ASCII
\* filtering to a filtered string, changes nothing, and ASCII filtering never
\* returns a string longer than its input.
C8_CleanerIdempotent ==
    [][/\ (/\ Len(applied) >= 1
           /\ applied' = Append(applied, applied[Len(applied)]))
         => text' = text
       /\ applied' = Append(applied, "ascii") => Len(text') <= Len(text)]_vars

\* C8 witness: whitespace collapsing has been applied twice to a string the
\* first application changed.
C8_Witness ==
    /\ applied = <<"collapse", "collapse">>
    /\ text # raw
    /\ \E i \in 1..Len(raw) : raw[i] \in NonAscii

-----------------------------------------------------------------------------
(* Properties of sent_cleaning (SpecFilter).                               *)

NumWords(sent) == Len(Split(sent))

\* the tokens are separated by single spaces, with no whitespace at the ends
SingleSpaced(sent) ==
    /\ \A k \in 1..Len(sent) : IsSpace(sent[k]) => sent[k] = " "
    /\ \A k \in 2..Len(sent) : ~(IsSpace(sent[k]) /\ IsSpace(sent[k - 1]))
    /\ Len(sent) > 0 => ~IsSpace(sent[1]) /\ ~IsSpace(sent[Len(sent)])

IsSymbolRun(x) ==
    Len(x) > 2 /\ \A k \in 1..Len(x) : x[k] \in spec_char

\* C4: every sentence sent_cleaning returns has more than 2 and fewer than 200
\* whitespace tokens; the last statement keeps exactly the sentences in that
\* window (2 tokens: dropped, 3 tokens: kept), and a sentence that is empty
\* after the symbol-run removal stays empty through the two strips and is
\* dropped.
C4_LengthWindow ==
    [][/\ step' = 5 =>
            /\ \A i \in 1..Len(list_sent') :
                   NumWords(list_sent'[i]) > 2 /\ NumWords(list_sent'[i]) < 200
            /\ \A i \in 1..Len(list_sent) :
                   (NumWords(list_sent[i]) > 2 /\ NumWords(list_sent[i]) < 200)
                     <=> (\E j \in 1..Len(list_sent') : list_sent'[j] = list_sent[i])
       /\ step' \in {3, 4} =>
            \A i \in 1..Len(list_sent) :
                list_sent[i] = <<>> => list_sent'[i] = <<>>]_vars

\* C4 witness: of two sentences, the one with 3 tokens was returned and the
\* one with 2 tokens was dropped.
C4_Witness ==
    /\ step = 5
    /\ Len(list_sent0) = 2
    /\ NumWords(list_sent0[1]) = 3
    /\ NumWords(list_sent0[2]) = 2
    /\ list_sent = <<list_sent0[1]>>

\* C9: the second statement removes the first token of a sentence, and nothing
\* else, when that token is all digits and another token follows; it leaves
\* every other sentence as it is.
C9_LeadingNumeralStrip ==
    [][(step = 2 /\ step' = 3) =>
          /\ Len(list_sent') = Len(list_sent)
          /\ \A i \in 1..Len(list_sent) :
                LET toks == Split(list_sent[i])
                IN  IF /\ Len(toks) > 1
                       /\ \A k \in 1..Len(toks[1]) : toks[1][k] \in DigitChars
                    THEN list_sent[i] = toks[1] \o <<" ">> \o list_sent'[i]
                    ELSE list_sent'[i] = list_sent[i]]_vars

\* C9 witness: a sentence lost its leading all-digit token in the second
\* statement and still has at least three tokens.
C9_Witness ==
    /\ step = 3
    /\ Len(list_sent0) = 1 /\ Len(list_sent) = 1
    /\ NumWords(list_sent0[1]) > 3
    /\ isdigit(Split(list_sent0[1])[1])
    /\ Split(list_sent[1]) = Tail(Split(list_sent0[1]))

\* C10: the first statement removes exactly the tokens longer than 2
\* characters made only of spec_char characters, keeps every other token in
\* order, and rejoins the kept tokens with single spaces.
C10_SymbolRunRemoval ==
    [][(step = 1 /\ step' = 2) =>
          /\ Len(list_sent') = Len(list_sent)
          /\ \A i \in 1..Len(list_sent) :
                /\ Split(list_sent'[i])
                     = SelectSeq(Split(list_sent[i]), LAMBDA x : ~IsSymbolRun(x))
                /\ SingleSpaced(list_sent'[i])]_vars

\* C10 witness: the first statement removed a symbol run from a sentence and
\* kept a two-character symbol token of it.
C10_Witness ==
    /\ step = 2
    /\ Len(list_sent0) = 1
    /\ \E k \in 1..NumWords(list_sent0[1]) : IsSymbolRun(Split(list_sent0[1])[k])
    /\ \E k \in 1..NumWords(list_sent[1]) : Split(list_sent[1])[k] = <<".", ".">>

\* C11: the third statement removes the first token of a sentence, and nothing
\* else, when that token is one character of spec_char and another token
\* follows; it leaves every other sentence as it is, a sentence of one token
\* included, and the last statement drops every sentence of one token.
C11_LeadingSymbolStrip ==
    [][/\ (step = 3 /\ step' = 4) =>
            /\ Len(list_sent') = Len(list_sent)
            /\ \A i \in 1..Len(list_sent) :
                  LET toks == Split(list_sent[i])
                  IN  IF /\ Len(toks) > 1
                         /\ Len(toks[1]) = 1
                         /\ toks[1][1] \in spec_char
                      THEN list_sent[i] = toks[1] \o <<" ">> \o list_sent'[i]
                      ELSE list_sent'[i] = list_sent[i]
       /\ (step = 4 /\ step' = 5) =>
            \A i \in 1..Len(list_sent) :
                NumWords(list_sent[i]) = 1 =>
                    \A j \in 1..Len(list_sent') : list_sent'[j] # list_sent[i]]_vars

\* C11 witness: a sentence lost its leading one-character symbol token in the
\* third statement and still has at least three tokens.
C11_Witness ==
    /\ step = 4
    /\ Len(list_sent0) = 1 /\ Len(list_sent) = 1
    /\ NumWords(list_sent0[1]) > 3
    /\ Split(list_sent0[1])[1] = <<".">>
    /\ Split(list_sent[1]) = Tail(Split(list_sent0[1]))

-----------------------------------------------------------------------------
(* The order of the stages in a run (Spec).                                *)

\* the cells of a run in the claimed order: load and flatten (the extraction
\* cell), the two inspection cells, clean, segment, filter, serialize, write
StageOrder ==
    <<"extract", "stats", "head", "clean", "segment", "sent_clean", "convert",
      "write", "done">>

\* the number of newline characters of s
Newlines(s) == Cardinality({k \in 1..Len(s) : s[k] = "\n"})

\* C12: a run takes the stages in the order load and flatten, clean, segment,
\* filter, serialize, write, one after the other and none skipped; nothing is
\* transformed before the load; each of clean, segment, filter and serialize
\* leaves every document of the frame in the form that stage gives it before
\* the next stage starts; the output file is written once, by the last step
\* of a run without exception; an exception ends the run with the file
\* unopened, and no step follows the end of a run.
C12_StagesInOrder ==
    [][/\ \E k \in 1..(Len(StageOrder) - 1) :
              pc = StageOrder[k] /\ pc' \in {StageOrder[k + 1], "error"}
       /\ pc = "extract" => rows = <<>> /\ df = <<>>
       /\ pc' = "error" =>
              err' # NoError /\ outfile' = NotOpened /\ df' = df
       /\ pc' # "error" => err' = NoError
       /\ outfile' # outfile =>
              /\ pc = "write" /\ pc' = "done"
              /\ outfile = NotOpened /\ outfile'.opened
       /\ (pc = "clean" /\ pc' = "segment") =>
              /\ Len(df') = Len(df)
              /\ \A i \in 1..Len(df') : \A k \in 1..Len(df'[i]) :
                     df'[i][k] \notin NonAscii /\ df'[i][k] # "\n"
       /\ (pc = "segment" /\ pc' = "sent_clean") =>
              /\ Len(df') = Len(df)
              /\ \A i \in 1..Len(df') :
                     Split(Join(<<" ">>, df'[i])) = Split(df[i])
       /\ (pc = "sent_clean" /\ pc' = "convert") =>
              /\ Len(df') = Len(df)
              /\ \A i \in 1..Len(df') :
                     /\ Len(df'[i]) <= Len(df[i])
                     /\ \A j \in 1..Len(df'[i]) :
                            /\ NumWords(df'[i][j]) > 2
                            /\ NumWords(df'[i][j]) < 200
       /\ (pc = "convert" /\ pc' = "write") =>
              /\ Len(df') = Len(df)
              /\ \A i \in 1..Len(df') :
                     IF df[i] = <<>> THEN df'[i] = <<>>
                     ELSE Newlines(df'[i]) = Len(df[i]) - 1]_vars

\* C12 witness: a run over three documents with a text went through every
\* stage without exception and wrote the file, each document with a sentence.
C12_Witness ==
    /\ pc = "done"
    /\ err = NoError
    /\ outfile.opened
    /\ Len(rows) = 3 /\ Len(df) = 3
    /\ \A i \in 1..3 : df[i] # <<>>
    /\ outfile.content = df[1] \o <<"\n", "\n">> \o df[2] \o <<"\n", "\n">> \o df[3]

-----------------------------------------------------------------------------
(* A second pass of sent_cleaning over what it returned (SpecFilter).      *)

\* the first token of sent is one that the second or the third statement
\* strips: all digits, or one character of spec_char, with a token after it
LeadingStrippable(sent) ==
    LET toks == Split(sent)
    IN  /\ Len(toks) > 1
        /\ \/ \A k \in 1..Len(toks[1]) : toks[1][k] \in DigitChars
           \/ Len(toks[1]) = 1 /\ toks[1][1] \in spec_char

\* C13, as claimed: sent_cleaning applied to the list it returned gives that
\* list again, for every list of sentences.
C13_FilterIdempotent ==
    step = 5 => sent_cleaning(list_sent) = list_sent

\* C13, amended: no sentence sent_cleaning returns has a symbol-run token
\* left, a second pass returns unchanged every returned sentence whose first
\* token is neither all digits nor a single spec_char character, and it
\* returns the whole list again when no returned sentence begins with such a
\* token.
C13_IdempotentWithoutLeadingStrippable ==
    step = 5 =>
        /\ \A i \in 1..Len(list_sent) :
              /\ LET toks == Split(list_sent[i])
                 IN  \A k \in 1..Len(toks) : ~IsSymbolRun(toks[k])
              /\ ~LeadingStrippable(list_sent[i]) =>
                     sent_cleaning(<<list_sent[i]>>) = <<list_sent[i]>>
        /\ (\A i \in 1..Len(list_sent) : ~LeadingStrippable(list_sent[i])) =>
              sent_cleaning(list_sent) = list_sent

\* C13 witness: sent_cleaning returned a sentence from which it had removed a
\* symbol run and stripped a leading number, and which begins with nothing a
\* second pass strips.
C13_Witness ==
    /\ step = 5
    /\ Len(list_sent0) = 1 /\ Len(list_sent) = 1
    /\ \E k \in 1..NumWords(list_sent0[1]) : IsSymbolRun(Split(list_sent0[1])[k])
    /\ \A k \in 1..Len(Split(list_sent0[1])[1]) :
           Split(list_sent0[1])[1][k] \in DigitChars
    /\ NumWords(list_sent[1]) = NumWords(list_sent0[1]) - 2
    /\ ~LeadingStrippable(list_sent[1])

-----------------------------------------------------------------------------
(* The sentences sent_cleaning returns and the lines written               *)
(* (SpecSentences).                                                        *)

\* s.split("\n"), scanning from position i with line cur open
RECURSIVE SplitLines(_, _, _)
SplitLines(s, i, cur) ==
    IF i > Len(s) THEN <<cur>>
    ELSE IF s[i] = "\n" THEN <<cur>> \o SplitLines(s, i + 1, <<>>)
         ELSE SplitLines(s, i + 1, Append(cur, s[i]))

\* the lines of a text; the empty text has none
Lines(s) == IF s = <<>> THEN <<>> ELSE SplitLines(s, 1, <<>>)

NonBlankLines(s) == SelectSeq(Lines(s), NonEmpty)

\* the sequences of ll, one after the other
RECURSIVE ConcatAll(_)
ConcatAll(ll) == IF ll = <<>> THEN <<>> ELSE Head(ll) \o ConcatAll(Tail(ll))

\* a sentence that is not empty, has no newline, no whitespace at either end
\* and single spaces between its tokens
WellFormed(sent) ==
    /\ sent # <<>>
    /\ \A k \in 1..Len(sent) : sent[k] # "\n"
    /\ SingleSpaced(sent)

\* C14: every sentence sent_cleaning returns, run on its own or on a document
\* of a run, is non-empty, has no newline, no whitespace at either end and
\* single spaces between its tokens; the lines of a converted document are
\* its retained sentences, one line each; and the non-blank lines of the
\* written file are the retained sentences of all the documents, in order, so
\* as many as there are retained sentences.
C14_OneLinePerSentence ==
    [][/\ step' = 5 =>
              \A j \in 1..Len(list_sent') : WellFormed(list_sent'[j])
       /\ pc' = "convert" =>
              \A i \in 1..Len(df') : \A j \in 1..Len(df'[i]) :
                  WellFormed(df'[i][j])
       /\ pc' = "write" =>
              \A i \in 1..Len(df) : Lines(df'[i]) = df[i]
       /\ pc' = "done" =>
              LET lines == NonBlankLines(outfile'.content)
                  sents == ConcatAll([i \in 1..Len(df) |-> Lines(df[i])])
              IN  lines = sents]_vars

\* C14 witness: a file of three lines was written for two documents, two
\* sentences of the one and one of the other.
C14_Witness ==
    /\ pc = "done"
    /\ Len(df) = 2
    /\ Len(Lines(df[1])) = 2
    /\ Len(Lines(df[2])) = 1
    /\ Len(NonBlankLines(outfile.content)) = 3
    /\ Len(Lines(outfile.content)) = 4

====
